---- MODULE Spec2Model ----
(***************************************************************************)
(* The typed markup layer of the syntax tree (src/syntax/markup.rs): the   *)
(* casts from red nodes to Markup, MarkupNode, RawNode, HeadingNode,       *)
(* ListNode and EnumNode, and the accessors body(), level() and number().  *)
(* The green tree, the red view, Ident::new, Expr::cast_from and the node! *)
(* macro live outside markup.rs and are modelled from the specification.   *)
(*                                                                         *)
(* Strings are sequences of characters; a character is a one-element token *)
(* and its UTF-8 width is given by ByteLen.  Option<T> is a record tagged  *)
(* "Some" or "None"; a panic (unwrap/expect on None) is a record tagged    *)
(* "Panic" that every caller propagates.                                   *)
(***************************************************************************)
EXTENDS Integers, Sequences, FiniteSets

\* ------------------------------------------------------------------ bounds
\* Largest number of children of a document built from DocSample.
MaxChildren == 3
\* Largest number of children of a Heading / List / Enum item.
MaxItemChildren == 3

\* ----------------------------------------------------------- Option, panic
None == [tag |-> "None"]
Some(v) == [tag |-> "Some", val |-> v]
Panic(msg) == [tag |-> "Panic", msg |-> msg]

IsSome(o) == o.tag = "Some"
IsNone(o) == o.tag = "None"
IsPanic(o) == o.tag = "Panic"

\* ----------------------------------------------------------------- strings
\* Characters that take two bytes in UTF-8; every other character takes one.
WideChars == {"U+00FC"}

ByteLen(c) == IF c \in WideChars THEN 2 ELSE 1

\* str::len(): the length of a string in bytes.
RECURSIVE StrLen(_)
StrLen(s) == IF s = <<>> THEN 0 ELSE ByteLen(Head(s)) + StrLen(Tail(s))

Letters == {"a", "b", "r", "s", "t", "u", "_", "U+00FC"}
Digits == {"1", "4"}

\* ------------------------------------------------------------------- kinds
Kind(tag) == [tag |-> tag]
SpaceKind(n) == [tag |-> "Space", newlines |-> n]
TextKind(s) == [tag |-> "Text", text |-> s]
UnicodeEscapeKind(seq, ch) ==
    [tag |-> "UnicodeEscape", sequence |-> seq, character |-> ch]
RawKind(lang, text, backticks, block) ==
    [tag |-> "Raw",
     raw |-> [lang |-> lang, text |-> text, backticks |-> backticks, block |-> block]]
HeadingLevelKind(n) == [tag |-> "HeadingLevel", level |-> n]
EnumNumberingKind(num) == [tag |-> "EnumNumbering", number |-> num]
ErrorKind(msg) == [tag |-> "Error", pos |-> "Full", msg |-> msg]
IdentKind(s) == [tag |-> "Ident", string |-> s]

\* ------------------------------------------------------------- green tree
RECURSIVE SumLen(_)
SumLen(nodes) == IF nodes = <<>> THEN 0 ELSE Head(nodes).len + SumLen(Tail(nodes))

\* A token: a kind and the byte length of its text.
Token(kind, len) == [kind |-> kind, children |-> <<>>, len |-> len]

\* An inner node: its cached length is the sum of its children's lengths.
Inner(kind, children) == [kind |-> kind, children |-> children, len |-> SumLen(children)]

\* ---------------------------------------------------------------- red view
\* A red node: a green node with the source id and its absolute offset.
RedNode_new(green, id) == [id |-> id, offset |-> 0, green |-> green]

RedRef_kind(node) == node.green.kind

Span_new(source, start, end) == [source |-> source, start |-> start, end |-> end]

RedRef_span(node) == Span_new(node.id, node.offset, node.offset + node.green.len)

\* The children of a red node: each starts where its preceding sibling ends.
RECURSIVE ChildrenFrom(_, _, _)
ChildrenFrom(id, offset, greens) ==
    IF greens = <<>> THEN <<>>
    ELSE <<[id |-> id, offset |-> offset, green |-> Head(greens)]>>
         \o ChildrenFrom(id, offset + Head(greens).len, Tail(greens))

\* Mutant: the children's offsets are counted from the parent's start as 0.
RedRef_children_relative(node) == ChildrenFrom(node.id, 0, node.green.children)

RedRef_children(node) == ChildrenFrom(node.id, node.offset, node.green.children)

\* ------------------------------------------------------ external collaborators
is_id_start(c) == c \in Letters
is_id_continue(c) == c \in Letters \cup Digits \cup {"-"}

is_ident(s) ==
    /\ s # <<>>
    /\ is_id_start(s[1])
    /\ \A i \in 2..Len(s) : is_id_continue(s[i])

\* Ident::new: an identifier when the string is one, absence otherwise.
Ident_new(string, span) ==
    IF is_ident(string) THEN Some([string |-> string, span |-> span]) ELSE None

\* The kinds of the expression sublanguage that occur in the samples.
ExprTags == {"Ident"}

Expr_cast_from(node) ==
    IF RedRef_kind(node).tag \in ExprTags
    THEN Some([variant |-> RedRef_kind(node).tag, node |-> node])
    ELSE None

\* node! { Kind => Name }: a wrapper around the red node, cast by kind alone.
NodeMacro_cast_from(tag, node) ==
    IF RedRef_kind(node).tag = tag THEN Some([wraps |-> tag, red |-> node]) ELSE None

HeadingNode_cast_from(node) == NodeMacro_cast_from("Heading", node)
ListNode_cast_from(node) == NodeMacro_cast_from("List", node)
EnumNode_cast_from(node) == NodeMacro_cast_from("Enum", node)

\* ------------------------------------------------------------------ RawNode
\* Mutant: the tag's span starts at the node's start, the backticks not skipped.
RawNode_lang_span_unshifted(node) ==
    LET raw == RedRef_kind(node).raw
        span == RedRef_span(node)
    IN Span_new(span.source, span.start, span.start + StrLen(raw.lang.val))

\* The arguments of the Ident::new call made while casting a raw node.
RawNode_lang_span(node) ==
    LET raw == RedRef_kind(node).raw
        span == RedRef_span(node)
        start == span.start + raw.backticks
    IN Span_new(span.source, start, start + StrLen(raw.lang.val))

\* Mutant: Ident::new(..)? in place of and_then: a rejected tag fails the cast.
RawNode_cast_from_strict(node) ==
    IF RedRef_kind(node).tag = "Raw"
    THEN LET raw == RedRef_kind(node).raw
         IN IF IsSome(raw.lang) /\ IsNone(Ident_new(raw.lang.val, RawNode_lang_span(node)))
            THEN None
            ELSE Some([block |-> raw.block,
                       lang |-> IF IsSome(raw.lang)
                                THEN Ident_new(raw.lang.val, RawNode_lang_span(node))
                                ELSE None,
                       text |-> raw.text])
    ELSE None

RawNode_cast_from(node) ==
    IF RedRef_kind(node).tag = "Raw"
    THEN LET raw == RedRef_kind(node).raw
         IN Some([block |-> raw.block,
                  lang |-> IF IsSome(raw.lang)
                           THEN Ident_new(raw.lang.val, RawNode_lang_span(node))
                           ELSE None,
                  text |-> raw.text])
    ELSE None

\* The Ident::new calls (string, span) one RawNode cast makes, in order.
RawNode_ident_calls(node) ==
    IF RedRef_kind(node).tag = "Raw" /\ IsSome(RedRef_kind(node).raw.lang)
    THEN <<[string |-> RedRef_kind(node).raw.lang.val, span |-> RawNode_lang_span(node)]>>
    ELSE <<>>

\* --------------------------------------------------------------- MarkupNode
MN(variant) == [variant |-> variant]
MNText(s) == [variant |-> "Text", text |-> s]
MNWrap(variant, inner) == [variant |-> variant, inner |-> inner]

\* Option::unwrap.
Unwrap(o) == IF IsSome(o) THEN o ELSE Panic("called Option::unwrap on a None value")

\* Some(MarkupNode::V(cast.unwrap())).
WrapUnwrapped(variant, cast) ==
    IF IsSome(Unwrap(cast)) THEN Some(MNWrap(variant, cast.val)) ELSE Unwrap(cast)

\* Mutant: the fallback is written without its closing brace.
UnicodeEscape_text_open(u) ==
    IF IsSome(u.character) THEN <<u.character.val>>
    ELSE <<"\\", "u", "{">> \o u.sequence

\* The text of a unicode escape: the character, or the fallback \u{sequence}.
UnicodeEscape_text(u) ==
    IF IsSome(u.character) THEN <<u.character.val>>
    ELSE <<"\\", "u", "{">> \o u.sequence \o <<"}">>

\* Mutant: the NonBreakingSpace arm is missing, so the kind falls through to
\* the expression cast.
MarkupNode_cast_from_noarm(node) ==
    LET kind == RedRef_kind(node) IN
    CASE kind.tag \in {"Space", "Linebreak", "Parbreak", "Strong", "Emph"} -> Some(MN(kind.tag))
      [] kind.tag = "Text" -> Some(MNText(kind.text))
      [] kind.tag = "UnicodeEscape" -> Some(MNText(UnicodeEscape_text(kind)))
      [] kind.tag = "EnDash" -> Some(MNText(<<"U+2013">>))
      [] kind.tag = "EmDash" -> Some(MNText(<<"U+2014">>))
      [] kind.tag = "Raw" -> WrapUnwrapped("Raw", RawNode_cast_from(node))
      [] kind.tag = "Heading" -> WrapUnwrapped("Heading", HeadingNode_cast_from(node))
      [] kind.tag = "List" -> WrapUnwrapped("List", ListNode_cast_from(node))
      [] kind.tag = "Enum" -> WrapUnwrapped("Enum", EnumNode_cast_from(node))
      [] kind.tag = "Error" -> None
      [] OTHER -> IF IsSome(Expr_cast_from(node))
                  THEN Some(MNWrap("Expr", Expr_cast_from(node).val))
                  ELSE None

\* Mutant: the Heading arm casts with ListNode::cast_from (a copied arm).
MarkupNode_cast_from_copied(node) ==
    LET kind == RedRef_kind(node) IN
    CASE kind.tag \in {"Space", "Linebreak", "Parbreak", "Strong", "Emph"} -> Some(MN(kind.tag))
      [] kind.tag = "Text" -> Some(MNText(kind.text))
      [] kind.tag = "UnicodeEscape" -> Some(MNText(UnicodeEscape_text(kind)))
      [] kind.tag = "EnDash" -> Some(MNText(<<"U+2013">>))
      [] kind.tag = "EmDash" -> Some(MNText(<<"U+2014">>))
      [] kind.tag = "NonBreakingSpace" -> Some(MNText(<<"U+00A0">>))
      [] kind.tag = "Raw" -> WrapUnwrapped("Raw", RawNode_cast_from(node))
      [] kind.tag = "Heading" -> WrapUnwrapped("Heading", ListNode_cast_from(node))
      [] kind.tag = "List" -> WrapUnwrapped("List", ListNode_cast_from(node))
      [] kind.tag = "Enum" -> WrapUnwrapped("Enum", EnumNode_cast_from(node))
      [] kind.tag = "Error" -> None
      [] OTHER -> IF IsSome(Expr_cast_from(node))
                  THEN Some(MNWrap("Expr", Expr_cast_from(node).val))
                  ELSE None

MarkupNode_cast_from(node) ==
    LET kind == RedRef_kind(node) IN
    CASE kind.tag = "Space" -> Some(MN("Space"))
      [] kind.tag = "Linebreak" -> Some(MN("Linebreak"))
      [] kind.tag = "Parbreak" -> Some(MN("Parbreak"))
      [] kind.tag = "Strong" -> Some(MN("Strong"))
      [] kind.tag = "Emph" -> Some(MN("Emph"))
      [] kind.tag = "Text" -> Some(MNText(kind.text))
      [] kind.tag = "UnicodeEscape" -> Some(MNText(UnicodeEscape_text(kind)))
      [] kind.tag = "EnDash" -> Some(MNText(<<"U+2013">>))
      [] kind.tag = "EmDash" -> Some(MNText(<<"U+2014">>))
      [] kind.tag = "NonBreakingSpace" -> Some(MNText(<<"U+00A0">>))
      [] kind.tag = "Raw" -> WrapUnwrapped("Raw", RawNode_cast_from(node))
      [] kind.tag = "Heading" -> WrapUnwrapped("Heading", HeadingNode_cast_from(node))
      [] kind.tag = "List" -> WrapUnwrapped("List", ListNode_cast_from(node))
      [] kind.tag = "Enum" -> WrapUnwrapped("Enum", EnumNode_cast_from(node))
      [] kind.tag = "Error" -> None
      [] OTHER -> IF IsSome(Expr_cast_from(node))
                  THEN Some(MNWrap("Expr", Expr_cast_from(node).val))
                  ELSE None

MarkupNode_ident_calls(node) == RawNode_ident_calls(node)

\* ------------------------------------------------------------------- Markup
\* Iterator::filter_map(..).collect(): the values of the successes, in order;
\* a panic inside the closure unwinds through it.
RECURSIVE FilterMapCollect(_)
FilterMapCollect(casts) ==
    IF casts = <<>> THEN Some(<<>>)
    ELSE IF IsPanic(Head(casts)) THEN Head(casts)
    ELSE LET rest == FilterMapCollect(Tail(casts)) IN
         IF IsPanic(rest) THEN rest
         ELSE IF IsSome(Head(casts)) THEN Some(<<Head(casts).val>> \o rest.val)
         ELSE rest

MapCast(nodes) == [i \in 1..Len(nodes) |-> MarkupNode_cast_from(nodes[i])]

\* Mutant: map(..).collect::<Option<Vec<_>>>() in place of filter_map: one child
\* that fails to cast makes the whole cast fail.
Markup_cast_from_all(node) ==
    IF RedRef_kind(node).tag # "Markup" THEN None
    ELSE IF \E i \in DOMAIN RedRef_children(node) :
                IsNone(MarkupNode_cast_from(RedRef_children(node)[i]))
    THEN None
    ELSE FilterMapCollect(MapCast(RedRef_children(node)))

Markup_cast_from(node) ==
    IF RedRef_kind(node).tag # "Markup" THEN None
    ELSE FilterMapCollect(MapCast(RedRef_children(node)))

RECURSIVE ConcatCalls(_)
ConcatCalls(nodes) ==
    IF nodes = <<>> THEN <<>>
    ELSE MarkupNode_ident_calls(Head(nodes)) \o ConcatCalls(Tail(nodes))

Markup_ident_calls(node) ==
    IF RedRef_kind(node).tag # "Markup" THEN <<>>
    ELSE ConcatCalls(RedRef_children(node))

\* ---------------------------------------------------------------- accessors
\* Option::expect.
Expect(o, msg) == IF IsSome(o) THEN o ELSE Panic(msg)

\* Iterator::find_map: the first result that is not None, of the closure's
\* results on the items in order; the items after it are not looked at.
RECURSIVE FindMap(_)
FindMap(results) ==
    IF results = <<>> THEN None
    ELSE IF IsNone(Head(results)) THEN FindMap(Tail(results))
    ELSE Head(results)

\* RedRef::cast_first_child::<Markup>: the first child that casts to Markup.
RedRef_cast_first_child(node) ==
    FindMap([i \in DOMAIN RedRef_children(node) |-> Markup_cast_from(RedRef_children(node)[i])])

HeadingLevel_payload(node) ==
    IF RedRef_kind(node).tag = "HeadingLevel" THEN Some(RedRef_kind(node).level) ELSE None

EnumNumbering_payload(node) ==
    IF RedRef_kind(node).tag = "EnumNumbering" THEN Some(RedRef_kind(node).number) ELSE None

LevelPayloads(nodes) == [i \in DOMAIN nodes |-> HeadingLevel_payload(nodes[i])]

NumberPayloads(nodes) == [i \in DOMAIN nodes |-> EnumNumbering_payload(nodes[i])]

HeadingNode_body(self) ==
    Expect(RedRef_cast_first_child(self.red), "heading node is missing markup body")

\* Mutant: the last level child wins (the scan runs from the back).
RECURSIVE Reverse(_)
Reverse(q) == IF q = <<>> THEN <<>> ELSE Append(Reverse(Tail(q)), Head(q))

HeadingNode_level_last(self) ==
    Expect(FindMap(Reverse(LevelPayloads(RedRef_children(self.red)))),
           "heading node is missing heading level")

HeadingNode_level(self) ==
    Expect(FindMap(LevelPayloads(RedRef_children(self.red))),
           "heading node is missing heading level")

\* Mutant: unwrap_or_default() in place of expect(): a missing body is empty.
ListNode_body_default(self) ==
    IF IsSome(RedRef_cast_first_child(self.red))
    THEN RedRef_cast_first_child(self.red)
    ELSE Some(<<>>)

ListNode_body(self) ==
    Expect(RedRef_cast_first_child(self.red), "list node is missing body")

EnumNode_body(self) ==
    Expect(RedRef_cast_first_child(self.red), "enumeration node is missing body")

\* Mutant: flatten() in place of expect(): a missing payload reads as no number.
EnumNode_number_flatten(self) ==
    LET found == FindMap(NumberPayloads(RedRef_children(self.red)))
    IN IF IsSome(found) THEN found.val ELSE None

\* The result is the Option<usize> itself: Some(Some(n)) is unwrapped to Some(n).
EnumNode_number(self) ==
    LET found == Expect(FindMap(NumberPayloads(RedRef_children(self.red))),
                        "enumeration node is missing number")
    IN IF IsPanic(found) THEN found ELSE found.val

\* ------------------------------------------------------------------ samples
TextA == <<"a">>
TextB == <<"b", "U+00FC">>

LangRust == <<"r", "s">>
LangWide == <<"U+00FC", "r", "-", "1">>
LangDigit == <<"1", "r">>
LangPlus == <<"r", "+">>

RawText == <<"f", "n">>

\* A raw token: the backticks on both sides, the tag and the text.
RawToken(lang, backticks, block) ==
    Token(RawKind(lang, RawText, backticks, block),
          2 * backticks + (IF IsSome(lang) THEN StrLen(lang.val) + 1 ELSE 0)
          + StrLen(RawText))

RawSample ==
    {RawToken(Some(LangRust), 3, TRUE),
     RawToken(Some(LangWide), 2, FALSE),
     RawToken(Some(LangDigit), 1, FALSE),
     RawToken(Some(LangPlus), 3, TRUE),
     RawToken(None, 1, FALSE)}

ErrorToken == Token(ErrorKind("expected expression"), 1)
CommaToken == Token(Kind("Comma"), 1)
IdentToken == Token(IdentKind(TextA), StrLen(TextA))

LeafSample ==
    {Token(SpaceKind(0), 1), Token(SpaceKind(1), 2),
     Token(Kind("Linebreak"), 1), Token(Kind("Parbreak"), 2),
     Token(Kind("Strong"), 1), Token(Kind("Emph"), 1),
     Token(TextKind(TextA), StrLen(TextA)), Token(TextKind(TextB), StrLen(TextB)),
     Token(UnicodeEscapeKind(<<"4", "1">>, Some("A")), 6),
     Token(UnicodeEscapeKind(<<"f", "c">>, Some("U+00FC")), 6),
     Token(UnicodeEscapeKind(<<"z", "z", "z">>, None), 7),
     Token(UnicodeEscapeKind(<<>>, None), 4),
     Token(Kind("EnDash"), 2), Token(Kind("EmDash"), 3),
     Token(Kind("NonBreakingSpace"), 1),
     ErrorToken, CommaToken, IdentToken,
     Token(HeadingLevelKind(1), 1), Token(EnumNumberingKind(Some(4)), 2)}
    \cup RawSample

SeqsUpTo(S, n) == UNION {[1..k -> S] : k \in 0..n}

BodyA == Inner(Kind("Markup"), <<Token(TextKind(TextA), StrLen(TextA))>>)
BodyB == Inner(Kind("Markup"), <<Token(TextKind(TextB), StrLen(TextB)), ErrorToken>>)

\* What the children of a Heading, List or Enum item are drawn from.
ItemSample ==
    {Token(HeadingLevelKind(1), 1), Token(HeadingLevelKind(2), 2),
     Token(EnumNumberingKind(Some(4)), 2), Token(EnumNumberingKind(None), 1),
     BodyA, BodyB}

ItemTags == {"Heading", "List", "Enum"}

Items == {Inner(Kind(t), cs) : t \in ItemTags, cs \in SeqsUpTo(ItemSample, MaxItemChildren)}

HeadingAB == Inner(Kind("Heading"), <<Token(HeadingLevelKind(2), 2), BodyA>>)

\* What the children of a longer document are drawn from.
DocSample ==
    {Token(TextKind(TextA), StrLen(TextA)), Token(TextKind(TextB), StrLen(TextB)),
     ErrorToken, CommaToken, HeadingAB, RawToken(Some(LangRust), 3, TRUE)}

\* The documents the parser hands over: a Markup root over DocSample children,
\* or over one child of any sampled kind, a token also after a text token.
Documents ==
    {Inner(Kind("Markup"), cs) : cs \in SeqsUpTo(DocSample, MaxChildren)}
    \cup {Inner(Kind("Markup"), <<n>>) : n \in LeafSample \cup Items}
    \cup {Inner(Kind("Markup"), <<Token(TextKind(TextB), StrLen(TextB)), n>>) :
            n \in LeafSample}

SourceIds == {1, 2}

\* -------------------------------------------------------------------- state
VARIABLES
    tree,     \* the green tree of the document
    cursor,   \* the red nodes from the root down to the current one
    path,     \* the child index taken at each step below the root
    out       \* the last operation on the current node and what it returned

vars == <<tree, cursor, path, out>>

NoResult == [op |-> "none"]

Result(op, res, calls) == [op |-> op, res |-> res, calls |-> calls]

Cur == cursor[Len(cursor)]

CurChildren == IF cursor = <<>> THEN <<>> ELSE RedRef_children(Cur)

Init ==
    /\ tree \in Documents
    /\ cursor = <<>>
    /\ path = <<>>
    /\ out = NoResult

\* RedNode::new(root, id): the red root of the document.
Root(id) ==
    /\ cursor = <<>>
    /\ cursor' = <<RedNode_new(tree, id)>>
    /\ out' = NoResult
    /\ UNCHANGED <<tree, path>>

\* node.children().nth(i - 1): step to a child of the current node.
Children(i) ==
    /\ cursor # <<>>
    /\ cursor' = Append(cursor, CurChildren[i])
    /\ path' = Append(path, i)
    /\ out' = NoResult
    /\ UNCHANGED tree

Do(op, res, calls) ==
    /\ out' = Result(op, res, calls)
    /\ UNCHANGED <<tree, cursor, path>>

CastMarkup ==
    /\ cursor # <<>>
    /\ Do("Markup", Markup_cast_from(Cur), Markup_ident_calls(Cur))

CastMarkupNode ==
    /\ cursor # <<>>
    /\ Do("MarkupNode", MarkupNode_cast_from(Cur), MarkupNode_ident_calls(Cur))

CastRawNode ==
    /\ cursor # <<>>
    /\ Do("RawNode", RawNode_cast_from(Cur), RawNode_ident_calls(Cur))

CastHeadingNode ==
    /\ cursor # <<>>
    /\ Do("HeadingNode", HeadingNode_cast_from(Cur), <<>>)

CastListNode ==
    /\ cursor # <<>>
    /\ Do("ListNode", ListNode_cast_from(Cur), <<>>)

CastEnumNode ==
    /\ cursor # <<>>
    /\ Do("EnumNode", EnumNode_cast_from(Cur), <<>>)

\* The Ident::new calls of cast_first_child: those of the first Markup child.
FirstChild_ident_calls(node) ==
    LET kids == RedRef_children(node)
        found == FindMap([i \in DOMAIN kids |->
                            IF RedRef_kind(kids[i]).tag = "Markup" THEN Some(kids[i]) ELSE None])
    IN IF IsSome(found) THEN Markup_ident_calls(found.val) ELSE <<>>

HeadingBody ==
    /\ cursor # <<>>
    /\ IsSome(HeadingNode_cast_from(Cur))
    /\ Do("Heading.body", HeadingNode_body(HeadingNode_cast_from(Cur).val),
          FirstChild_ident_calls(Cur))

HeadingLevel ==
    /\ cursor # <<>>
    /\ IsSome(HeadingNode_cast_from(Cur))
    /\ Do("Heading.level", HeadingNode_level(HeadingNode_cast_from(Cur).val), <<>>)

ListBody ==
    /\ cursor # <<>>
    /\ IsSome(ListNode_cast_from(Cur))
    /\ Do("List.body", ListNode_body(ListNode_cast_from(Cur).val),
          FirstChild_ident_calls(Cur))

EnumBody ==
    /\ cursor # <<>>
    /\ IsSome(EnumNode_cast_from(Cur))
    /\ Do("Enum.body", EnumNode_body(EnumNode_cast_from(Cur).val),
          FirstChild_ident_calls(Cur))

EnumNumber ==
    /\ cursor # <<>>
    /\ IsSome(EnumNode_cast_from(Cur))
    /\ Do("Enum.number", EnumNode_number(EnumNode_cast_from(Cur).val), <<>>)

Next ==
    \/ \E id \in SourceIds : Root(id)
    \/ \E i \in DOMAIN CurChildren : Children(i)
    \/ CastMarkup
    \/ CastMarkupNode
    \/ CastRawNode
    \/ CastHeadingNode
    \/ CastListNode
    \/ CastEnumNode
    \/ HeadingBody
    \/ HeadingLevel
    \/ ListBody
    \/ EnumBody
    \/ EnumNumber

Spec == Init /\ [][Next]_vars

\* ------------------------------------------------------------------- claims
CastOps == {"Markup", "MarkupNode", "RawNode", "HeadingNode", "ListNode", "EnumNode"}

CurTag == RedRef_kind(Cur).tag

\* The indices of the children of the current node whose kind has the tag.
ChildrenTagged(tag) == {i \in DOMAIN Cur.green.children : Cur.green.children[i].kind.tag = tag}

\* The least element of a non-empty set of indices.
Least(S) == CHOOSE i \in S : \A j \in S : i <= j

\* The children of the current node that fail the single-MarkupNode cast.
FailingChildren == {i \in DOMAIN CurChildren : ~IsSome(MarkupNode_cast_from(CurChildren[i]))}

\* C1: casting to Markup gives absence for a node that is not of kind Markup;
\* for a Markup node it gives the successful MarkupNode casts of the children
\* in child order: each surviving child i lands at position i minus the number
\* of failing children before it, and with K children of which M are
\* error-tagged and none else fails, the length is K - M.
C1_MarkupCast ==
    out.op = "Markup" =>
        LET K == Len(CurChildren)
            M == Cardinality(ChildrenTagged("Error"))
            Before(i) == Cardinality({k \in FailingChildren : k < i})
        IN /\ CurTag # "Markup" => IsNone(out.res)
           /\ CurTag = "Markup" =>
                /\ IsSome(out.res)
                /\ Len(out.res.val) = K - Cardinality(FailingChildren)
                /\ \A i \in DOMAIN CurChildren \ FailingChildren :
                      out.res.val[i - Before(i)] = MarkupNode_cast_from(CurChildren[i]).val
                /\ FailingChildren = ChildrenTagged("Error") => Len(out.res.val) = K - M

\* A document of three children, the middle one error-tagged, cast to the two
\* text nodes around it, in order.
C1_Witness ==
    /\ out.op = "Markup"
    /\ Len(cursor) = 1
    /\ Len(CurChildren) = 3
    /\ ChildrenTagged("Error") = {2}
    /\ IsSome(out.res)
    /\ out.res.val = <<MNText(TextB), MNText(TextA)>>

\* C2: no cast halts with a fatal error: each returns a value or absence; a
\* Raw, Heading, List or Enum node casts to the MarkupNode variant of its kind
\* whatever children it has or lacks.
C2_CastsNeverPanic ==
    out.op \in CastOps =>
        /\ ~IsPanic(out.res)
        /\ IsSome(out.res) \/ IsNone(out.res)
        /\ (out.op = "MarkupNode" /\ CurTag \in {"Raw", "Heading", "List", "Enum"}) =>
              IsSome(out.res) /\ out.res.val.variant = CurTag

\* A heading without any child still casts to the Heading variant.
C2_Witness ==
    /\ out.op = "MarkupNode"
    /\ CurTag = "Heading"
    /\ Cur.green.children = <<>>
    /\ IsSome(out.res)
    /\ out.res.val.variant = "Heading"

\* C3: level() of a heading is the payload of its first HeadingLevel child and
\* body() is the Markup cast of its first Markup child, whatever else stands
\* before or after them; the heading of level 2 over [Text] gives 2 and [Text].
C3_HeadingAccessors ==
    /\ (out.op = "Heading.level" /\ ChildrenTagged("HeadingLevel") # {}) =>
          /\ IsSome(out.res)
          /\ out.res.val = Cur.green.children[Least(ChildrenTagged("HeadingLevel"))].kind.level
    /\ (out.op = "Heading.body" /\ ChildrenTagged("Markup") # {}) =>
          /\ IsSome(out.res)
          /\ out.res.val = Markup_cast_from(CurChildren[Least(ChildrenTagged("Markup"))]).val
    /\ (out.op = "Heading.level" /\ Cur.green = HeadingAB) => out.res = Some(2)
    /\ (out.op = "Heading.body" /\ Cur.green = HeadingAB) =>
          /\ IsSome(out.res)
          /\ out.res.val = <<MNText(TextA)>>

\* A heading whose first level child stands after a body and before another
\* level child: level() gives the first one's payload.
C3_Witness ==
    /\ out.op = "Heading.level"
    /\ Len(Cur.green.children) = 3
    /\ Cur.green.children[1] = BodyB
    /\ Cur.green.children[2].kind = HeadingLevelKind(2)
    /\ Cur.green.children[3].kind = HeadingLevelKind(1)
    /\ out.res = Some(2)

\* C4: body() of a heading, list or enum node without a Markup child, and
\* level() of a heading without a HeadingLevel child, halt with a panic; they
\* return no empty or default value.
C4_MissingChildIsFatal ==
    /\ (out.op \in {"Heading.body", "List.body", "Enum.body"} /\ ChildrenTagged("Markup") = {}) =>
          IsPanic(out.res)
    /\ (out.op = "Heading.level" /\ ChildrenTagged("HeadingLevel") = {}) => IsPanic(out.res)

\* body() of a list item whose only child is not a Markup node.
C4_Witness ==
    /\ out.op = "List.body"
    /\ Len(Cur.green.children) = 1
    /\ ChildrenTagged("Markup") = {}
    /\ IsPanic(out.res)
    /\ out.res.msg = "list node is missing body"

\* C5 as stated: number() is always-optional: it gives the payload of the first
\* EnumNumbering child, and an enum node without any EnumNumbering child is
\* handled too, number() returning without a fatal error.
C5_NumberAlwaysOptional ==
    out.op = "Enum.number" =>
        /\ ~IsPanic(out.res)
        /\ ChildrenTagged("EnumNumbering") # {} =>
              out.res = Cur.green.children[Least(ChildrenTagged("EnumNumbering"))].kind.number

\* C5 amended: number() gives the payload of the first EnumNumbering child,
\* Some(n) or absent; on an enum node without an EnumNumbering child it halts
\* with the panic "enumeration node is missing number".
C5_NumberOrPanic ==
    out.op = "Enum.number" =>
        /\ ChildrenTagged("EnumNumbering") # {} =>
              out.res = Cur.green.children[Least(ChildrenTagged("EnumNumbering"))].kind.number
        /\ ChildrenTagged("EnumNumbering") = {} =>
              /\ IsPanic(out.res)
              /\ out.res.msg = "enumeration node is missing number"

\* number() of an enum item that has a body and no EnumNumbering child.
C5_Witness ==
    /\ out.op = "Enum.number"
    /\ ChildrenTagged("EnumNumbering") = {}
    /\ ChildrenTagged("Markup") # {}
    /\ IsPanic(out.res)

\* The span Ident::new is to receive for a raw node at (source, s, e) with b
\* backticks and a tag of l bytes: (source, s + b, s + b + l).
ExpectedLangSpan(node) ==
    [source |-> node.id,
     start |-> node.offset + node.green.kind.raw.backticks,
     end |-> node.offset + node.green.kind.raw.backticks
             + StrLen(node.green.kind.raw.lang.val)]

\* The children of the current node that are raw nodes with a language tag.
TaggedRawChildren ==
    {i \in DOMAIN CurChildren :
        /\ CurChildren[i].green.kind.tag = "Raw"
        /\ IsSome(CurChildren[i].green.kind.raw.lang)}

\* C6: the span handed to Ident::new for the tag of a raw node at
\* (source, s, e) with b backticks and a tag of l bytes is (source, s + b,
\* s + b + l), whether the tag is then accepted or not, and an accepted
\* identifier carries that span.
C6_LangSpan ==
    /\ (out.op \in {"RawNode", "MarkupNode"} /\ CurTag = "Raw" /\ IsSome(RedRef_kind(Cur).raw.lang)) =>
          /\ out.calls = <<[string |-> RedRef_kind(Cur).raw.lang.val,
                            span |-> ExpectedLangSpan(Cur)]>>
          /\ out.calls[1].span.end - out.calls[1].span.start
                = StrLen(RedRef_kind(Cur).raw.lang.val)
    /\ (out.op = "RawNode" /\ IsSome(out.res) /\ IsSome(out.res.val.lang)) =>
          out.res.val.lang.val.span = ExpectedLangSpan(Cur)
    /\ (out.op = "Markup" /\ CurTag = "Markup") =>
          /\ Len(out.calls) = Cardinality(TaggedRawChildren)
          /\ \A i \in TaggedRawChildren :
                out.calls[Cardinality({k \in TaggedRawChildren : k <= i})].span
                    = ExpectedLangSpan(CurChildren[i])

\* A raw node that does not start the document, with 2 backticks and a tag of
\* 4 characters in 5 bytes.
C6_Witness ==
    /\ out.op = "RawNode"
    /\ CurTag = "Raw"
    /\ Cur.id = 2
    /\ Cur.offset = 3
    /\ RedRef_kind(Cur).raw.lang = Some(LangWide)
    /\ out.calls[1].span = [source |-> 2, start |-> 5, end |-> 10]

\* C7: a unicode escape always casts to Text: to the one recognised character,
\* or else to backslash, u, {, the stored sequence, }, which is the
\* sequence's length plus 4.
C7_UnicodeEscape ==
    (out.op = "MarkupNode" /\ CurTag = "UnicodeEscape") =>
        LET u == RedRef_kind(Cur) IN
        /\ IsSome(out.res)
        /\ out.res.val.variant = "Text"
        /\ IsSome(u.character) => out.res.val.text = <<u.character.val>>
        /\ IsNone(u.character) =>
              /\ Len(out.res.val.text) = Len(u.sequence) + 4
              /\ StrLen(out.res.val.text) = StrLen(u.sequence) + 4
              /\ SubSeq(out.res.val.text, 1, 3) = <<"\\", "u", "{">>
              /\ SubSeq(out.res.val.text, 4, Len(u.sequence) + 3) = u.sequence
              /\ out.res.val.text[Len(u.sequence) + 4] = "}"

\* An escape without a recognised character, cast to its seven-byte fallback.
C7_Witness ==
    /\ out.op = "MarkupNode"
    /\ CurTag = "UnicodeEscape"
    /\ IsNone(RedRef_kind(Cur).character)
    /\ IsSome(out.res)
    /\ out.res.val.text = <<"\\", "u", "{", "z", "z", "z", "}">>

\* The kinds the MarkupNode cast has an arm of its own for.
FixedTags == {"Space", "Linebreak", "Parbreak", "Strong", "Emph"}
TextTags == {"Text", "EnDash", "EmDash", "NonBreakingSpace"}
WrapperTags == {"Raw", "Heading", "List", "Enum"}
ArmTags == FixedTags \cup TextTags \cup WrapperTags \cup {"UnicodeEscape", "Error"}

C9_Offsets ==
    cursor # <<>> =>
        /\ cursor[1].green = tree
        /\ RedRef_span(cursor[1]).start = 0
        /\ Len(path) = Len(cursor) - 1
        /\ \A i \in DOMAIN cursor :
              RedRef_span(cursor[i]).end - RedRef_span(cursor[i]).start = cursor[i].green.len
        /\ \A i \in 2..Len(cursor) :
              LET parent == cursor[i - 1]
                  k == path[i - 1]
              IN /\ k \in DOMAIN parent.green.children
                 /\ cursor[i].green = parent.green.children[k]
                 /\ cursor[i].id = parent.id
                 /\ RedRef_span(cursor[i]).start
                       = RedRef_span(parent).start
                         + SumLen(SubSeq(parent.green.children, 1, k - 1))

\* The same heading twice in one document: the body of the second one, two
\* steps below the root.
C9_Witness ==
    /\ Len(cursor) = 3
    /\ path = <<2, 2>>
    /\ tree.children[1] = HeadingAB
    /\ tree.children[2] = HeadingAB
    /\ cursor[2].offset = 3
    /\ cursor[3].offset = 5
    /\ RedRef_span(cursor[3]).end = 6

\* C10: a Raw node always casts to a RawNode with the stored text and block;
\* lang is present exactly when the stored tag is present and Ident::new
\* accepts it, a rejected tag leaving lang absent; any other kind gives absence.
C10_RawCast ==
    out.op = "RawNode" =>
        /\ CurTag # "Raw" => IsNone(out.res)
        /\ CurTag = "Raw" =>
              LET raw == RedRef_kind(Cur).raw IN
              /\ IsSome(out.res)
              /\ out.res.val.text = raw.text
              /\ out.res.val.block = raw.block
              /\ IsSome(out.res.val.lang)
                    <=> (IsSome(raw.lang) /\ IsSome(Ident_new(raw.lang.val, RedRef_span(Cur))))
              /\ IsSome(out.res.val.lang) => out.res.val.lang.val.string = raw.lang.val

\* A raw node whose tag starts with a digit: the cast succeeds without a lang.
C10_Witness ==
    /\ out.op = "RawNode"
    /\ CurTag = "Raw"
    /\ RedRef_kind(Cur).raw.lang = Some(LangDigit)
    /\ IsSome(out.res)
    /\ IsNone(out.res.val.lang)
    /\ out.res.val.text = RawText

====
